---- MODULE Spec2Model ----
\* Verification model of photoEdit (src/WatermarkApp.py): the batch worker
\* thread, the Tk control thread with its event queue, the debounced preview
\* render and the window-close path.
EXTENDS Integers, Sequences, FiniteSets, TLC

\* ---------------------------------------------------------------- bounds
MaxFiles == 2       \* queue length explored
MaxRuns == 2        \* worker threads ever started
MaxAfterIds == 2    \* "after" timer ids issued for preview renders
MaxIids == 3        \* item ids the tree ever issues
MaxTipTimers == 6   \* "after" timer ids a Tooltip's widget issues

\* environment: the files the user can pick, those among them whose image data
\* cannot be decoded, and the capture date get_exif_date finds in each
Paths == {"a.jpg", "b.jpg", "c.jpg"}
BrokenPaths == {"b.jpg"}
get_exif_date(path) == IF path = "c.jpg" THEN "" ELSE "2020-01-31"
SaveModes == {"overwrite", "separate"}
None == 0            \* Python None, for an item id or a timer id
NoFile == ""         \* no file held open

VARIABLES
    files,                   \* self.files: insertion-ordered dict, as a sequence of <<iid, info>> entries
    tree_next,               \* next item id handed out by tree.insert
    tree_selection,          \* self.tree.selection()
    selected_iid,            \* self.selected_iid
    save_mode,               \* self.save_mode (Tk variable)
    is_processing,           \* self.is_processing: running flag and cancel flag
    threads,                 \* every threading.Thread started; the last one is self.processing_thread
    evq,                     \* callbacks queued by root.after(0, ...) for the control thread
    cpc,                     \* what the control thread is doing
    cOpen,                   \* path the control thread holds open in render_preview
    preview_state,           \* what preview_label shows
    ui_disabled,             \* state of the widgets toggle_ui_state controls
    apply_state,             \* state of apply_button
    progress_value,          \* progress_bar['value']
    progress_max,            \* progress_bar['maximum']
    shown,                   \* message boxes shown by queued callbacks
    preview_update_job_id,   \* self.preview_update_job_id
    afterSeq,                \* last timer id issued by root.after(delay, render_preview)
    afterPending,            \* timer ids scheduled and neither fired nor cancelled
    timerRenders,            \* renders run by timers since the last schedule_preview_update
    burst,                   \* schedule_preview_update calls of the current burst (none separated by a timer render)
    close_dialog,            \* on_close is waiting in its askyesno dialog
    join_called,             \* on_close reached processing_thread.join(timeout=2)
    workerTkReads,           \* Tk variables read on a worker thread
    fn_call,                 \* a call of one of the module-level or helper functions: its name and arguments
    fn_result,               \* what that call returned or raised, once it has run
    tip                      \* a Tooltip object, the timers it has pending and the windows it has open

vars == <<files, tree_next, tree_selection, selected_iid, save_mode, is_processing,
          threads, evq, cpc, cOpen, preview_state, ui_disabled, apply_state,
          progress_value, progress_max, shown, preview_update_job_id, afterSeq,
          afterPending, timerRenders, burst, close_dialog, join_called, workerTkReads,
          fn_call, fn_result, tip>>

appVars == <<files, tree_next, tree_selection, selected_iid, save_mode, is_processing,
             threads, evq, cpc, cOpen, preview_state, ui_disabled, apply_state,
             progress_value, progress_max, shown, preview_update_job_id, afterSeq,
             afterPending, timerRenders, burst, close_dialog, join_called, workerTkReads>>
fnVars == <<fn_call, fn_result>>
tipVars == <<tip>>

queueVars == <<files, tree_next>>
previewVars == <<preview_update_job_id, afterSeq, afterPending, timerRenders, burst>>
batchUiVars == <<ui_disabled, apply_state, progress_value, progress_max, shown>>
closeVars == <<close_dialog, join_called>>
renderVars == <<cpc, cOpen, preview_state>>

\* ------------------------------------------------------------ Python values
\* A str and a dict are different kinds of value: subscripting a str with a
\* str key raises TypeError, subscripting a dict returns the entry.
StrVal(s) == [kind |-> "str", s |-> s]
DictVal(path, date_str, rotation) ==
    [kind |-> "dict", path |-> path, date_str |-> date_str, rotation |-> rotation]

Subscript(v, key) ==
    IF v.kind = "dict" THEN [ok |-> TRUE, val |-> v[key]]
    ELSE [ok |-> FALSE, val |-> "TypeError"]

\* iterating a dict yields its keys
FilesIterValues(fs) == [k \in 1..Len(fs) |-> fs[k][2]]
FilesIter(fs) == [k \in 1..Len(fs) |-> StrVal(fs[k][1])]

Iids == {files[k][1] : k \in 1..Len(files)}
InfoOf(iid) == (CHOOSE k \in 1..Len(files) : files[k][1] = iid)
FileInfo(iid) == files[InfoOf(iid)][2]

NoCall == [fn |-> "none"]
NotRun == [done |-> FALSE]

\* Tooltip.__init__; last, pending, seq and windows are the event handled
\* last, the "after" timers of the widget, the timer ids issued and the
\* Toplevel windows that exist
NewTooltip(autohide) ==
    [autohide |-> autohide, tip_window |-> FALSE, schedule_id |-> None,
     autohide_id |-> None, is_mouse_pressed |-> FALSE,
     last |-> "none", pending |-> {}, seq |-> 0, windows |-> 0]

AppInit ==
    /\ files = <<>>
    /\ tree_next = 1
    /\ tree_selection = {}
    /\ selected_iid = None
    /\ save_mode = "separate"
    /\ is_processing = FALSE
    /\ threads = <<>>
    /\ evq = <<>>
    /\ cpc = "mainloop"
    /\ cOpen = NoFile
    /\ preview_state = "none"
    /\ ui_disabled = FALSE
    /\ apply_state = "normal"
    /\ progress_value = 0
    /\ progress_max = 0
    /\ shown = <<>>
    /\ preview_update_job_id = None
    /\ afterSeq = 0
    /\ afterPending = {}
    /\ timerRenders = 0
    /\ burst = 0
    /\ close_dialog = FALSE
    /\ join_called = FALSE
    /\ workerTkReads = {}

Init ==
    /\ AppInit
    /\ fn_call = NoCall
    /\ fn_result = NotRun
    /\ tip = NewTooltip(3000)

\* ------------------------------------------------- control thread: the queue
Max(S) == CHOOSE x \in S : \A y \in S : y <= x

\* render_preview up to the point where the image file is held open
render_preview(iid) ==
    IF iid = None \/ iid \notin Iids
    THEN UNCHANGED renderVars
    ELSE LET p == FileInfo(iid).path IN
         IF p \in BrokenPaths
         THEN /\ preview_state' = "error"
              /\ UNCHANGED <<cpc, cOpen>>
         ELSE /\ cpc' = "rendering"
              /\ cOpen' = p
              /\ UNCHANGED preview_state

\* render_preview from _draw_watermark to the end of the with block
RenderEnd ==
    /\ cpc = "rendering"
    /\ cpc' = "mainloop"
    /\ cOpen' = NoFile
    /\ preview_state' = "image"
    /\ UNCHANGED <<queueVars, tree_selection, selected_iid, save_mode, is_processing,
                   threads, evq, batchUiVars, previewVars, closeVars, workerTkReads>>
    /\ UNCHANGED <<fnVars, tipVars>>

UserInput == cpc = "mainloop" /\ ~close_dialog

add_files(path) ==
    /\ UserInput
    /\ ~ui_disabled
    /\ Len(files) < MaxFiles
    /\ tree_next <= MaxIids
    /\ files' = Append(files, <<tree_next, DictVal(path, get_exif_date(path), 0)>>)
    /\ tree_next' = tree_next + 1
    /\ UNCHANGED <<tree_selection, selected_iid, save_mode, is_processing, threads, evq,
                   renderVars, batchUiVars, previewVars, closeVars, workerTkReads>>
    /\ UNCHANGED <<fnVars, tipVars>>

on_file_select(sel) ==
    /\ UserInput
    /\ sel # tree_selection
    /\ tree_selection' = sel
    /\ IF sel = {}
       THEN UNCHANGED <<selected_iid, renderVars>>
       ELSE /\ selected_iid' = Max(sel)
            /\ render_preview(Max(sel))
    /\ UNCHANGED <<queueVars, save_mode, is_processing, threads, evq, batchUiVars,
                   previewVars, closeVars, workerTkReads>>
    /\ UNCHANGED <<fnVars, tipVars>>

set_save_mode(m) ==
    /\ UserInput
    /\ ~ui_disabled
    /\ m # save_mode
    /\ save_mode' = m
    /\ UNCHANGED <<queueVars, tree_selection, selected_iid, is_processing, threads, evq,
                   renderVars, batchUiVars, previewVars, closeVars, workerTkReads>>
    /\ UNCHANGED <<fnVars, tipVars>>

\* ------------------------------------------ control thread: debounced preview
AfterCancelNoop(pending, id) == pending
AfterCancel(pending, id) == pending \ {id}

schedule_preview_update ==
    /\ afterSeq < MaxAfterIds
    /\ afterSeq' = afterSeq + 1
    /\ afterPending' = (IF preview_update_job_id # None
                        THEN AfterCancel(afterPending, preview_update_job_id)
                        ELSE afterPending) \cup {afterSeq + 1}
    /\ preview_update_job_id' = afterSeq + 1
    /\ timerRenders' = 0
    /\ burst' = IF timerRenders > 0 \/ preview_update_job_id = None THEN 1 ELSE burst + 1

\* a traced option variable is written through one of the option widgets
OptionChange ==
    /\ UserInput
    /\ ~ui_disabled
    /\ schedule_preview_update
    /\ UNCHANGED <<queueVars, tree_selection, selected_iid, save_mode, is_processing,
                   threads, evq, renderVars, batchUiVars, closeVars, workerTkReads>>
    /\ UNCHANGED <<fnVars, tipVars>>

\* <Configure> on the preview frame
ResizeEvent ==
    /\ cpc = "mainloop"
    /\ schedule_preview_update
    /\ UNCHANGED <<queueVars, tree_selection, selected_iid, save_mode, is_processing,
                   threads, evq, renderVars, batchUiVars, closeVars, workerTkReads>>
    /\ UNCHANGED <<fnVars, tipVars>>

PreviewTimerFire(id) ==
    /\ cpc = "mainloop"
    /\ id \in afterPending
    /\ afterPending' = afterPending \ {id}
    /\ timerRenders' = timerRenders + 1
    /\ render_preview(selected_iid)
    /\ UNCHANGED <<queueVars, tree_selection, selected_iid, save_mode, is_processing,
                   threads, evq, batchUiVars, preview_update_job_id, afterSeq, burst,
                   closeVars, workerTkReads>>
    /\ UNCHANGED <<fnVars, tipVars>>

\* ------------------------------------------------ control thread: batch runs
NewThread(output_dir) ==
    [pc |-> "start", output_dir |-> output_dir, save_mode |-> "", i |-> 0,
     success |-> 0, skipped |-> 0, failed |-> 0, open |-> NoFile, err |-> "",
     attempted |-> 0, progressPosted |-> 0, errorsPosted |-> 0, finishedPosted |-> 0]

\* toggle_ui_state: every listed widget that has a state option (the tree has none)
toggle_ui_state(is_disabled) == ui_disabled' = is_disabled

StopButtonStateNormal == "normal"
StopButtonState == "disabled"

\* start_stop_processing, the branch taken while is_processing
StopProcessing ==
    /\ UserInput
    /\ apply_state = "normal"
    /\ is_processing
    /\ is_processing' = FALSE
    /\ apply_state' = StopButtonState
    /\ UNCHANGED <<queueVars, tree_selection, selected_iid, save_mode, threads, evq,
                   renderVars, ui_disabled, progress_value, progress_max, shown,
                   previewVars, closeVars, workerTkReads>>
    /\ UNCHANGED <<fnVars, tipVars>>

\* start_stop_processing, the branch taken otherwise, with the dialog confirmed
StartProcessing ==
    /\ UserInput
    /\ apply_state = "normal"
    /\ ~is_processing
    /\ files # <<>>
    /\ Len(threads) < MaxRuns
    /\ is_processing' = TRUE
    /\ toggle_ui_state(TRUE)
    /\ progress_max' = Len(files)
    /\ progress_value' = 0
    /\ threads' = Append(threads, NewThread(IF save_mode = "overwrite" THEN "" ELSE "out"))
    /\ UNCHANGED <<queueVars, tree_selection, selected_iid, save_mode, evq, renderVars,
                   apply_state, shown, previewVars, closeVars, workerTkReads>>
    /\ UNCHANGED <<fnVars, tipVars>>

on_process_finished(ev) ==
    /\ is_processing' = FALSE
    /\ toggle_ui_state(FALSE)
    /\ apply_state' = "normal"
    /\ progress_value' = 0
    /\ shown' = Append(shown, [kind |-> "result", success |-> ev.success,
                               skipped |-> ev.skipped, failed |-> ev.failed])

\* the control thread runs the oldest callback queued by root.after(0, ...)
ProcessEvent ==
    /\ cpc = "mainloop"
    /\ evq # <<>>
    /\ evq' = Tail(evq)
    /\ LET ev == Head(evq) IN
       CASE ev.type = "progress" ->
              /\ progress_value' = ev.value
              /\ UNCHANGED <<is_processing, ui_disabled, apply_state, shown>>
         [] ev.type = "error" ->
              /\ shown' = Append(shown, [kind |-> "error", path |-> ev.path, err |-> ev.err])
              /\ UNCHANGED <<is_processing, ui_disabled, apply_state, progress_value>>
         [] ev.type = "finished" -> on_process_finished(ev)
    /\ UNCHANGED <<queueVars, tree_selection, selected_iid, save_mode, threads, renderVars,
                   progress_max, previewVars, closeVars, workerTkReads>>
    /\ UNCHANGED <<fnVars, tipVars>>

\* ------------------------------------------------------ control thread: close
Alive(t) == threads[t].pc \notin {"done", "dead"}
AliveThreads == {t \in 1..Len(threads) : Alive(t)}

\* on_close: not processing, or processing and the dialog is put up
OnClose ==
    /\ UserInput
    /\ IF is_processing
       THEN /\ close_dialog' = TRUE
            /\ UNCHANGED cpc
       ELSE /\ cpc' = "destroyed"
            /\ UNCHANGED close_dialog
    /\ UNCHANGED <<queueVars, tree_selection, selected_iid, save_mode, is_processing,
                   threads, evq, cOpen, preview_state, batchUiVars, previewVars,
                   join_called, workerTkReads>>
    /\ UNCHANGED <<fnVars, tipVars>>

\* on_close: the answer to "작업이 진행 중입니다. 정말로 종료할까요?"
OnCloseAnswer(yes) ==
    /\ cpc = "mainloop"
    /\ close_dialog
    /\ close_dialog' = FALSE
    /\ IF ~yes
       THEN UNCHANGED <<cpc, is_processing, join_called>>
       ELSE IF is_processing
            THEN /\ is_processing' = FALSE
                 /\ join_called' = TRUE
                 /\ cpc' = "joining"
            ELSE /\ cpc' = "destroyed"
                 /\ UNCHANGED <<is_processing, join_called>>
    /\ UNCHANGED <<queueVars, tree_selection, selected_iid, save_mode, threads, evq,
                   cOpen, preview_state, batchUiVars, previewVars, workerTkReads>>
    /\ UNCHANGED <<fnVars, tipVars>>

\* processing_thread.join(timeout=2) returns: the worker ended or 2 s passed
JoinReturn ==
    /\ cpc = "joining"
    /\ cpc' = "destroyed"
    /\ UNCHANGED <<queueVars, tree_selection, selected_iid, save_mode, is_processing,
                   threads, evq, cOpen, preview_state, batchUiVars, previewVars,
                   closeVars, workerTkReads>>
    /\ UNCHANGED <<fnVars, tipVars>>

\* ---------------------------------------------- worker: _apply_watermarks_thread
Running == cpc # "destroyed"

\* `if not self.is_processing: break`
CancelIgnored(flag) == FALSE
CancelRequested(flag) == ~flag

\* Tk variables _draw_watermark reads
DrawWatermarkReads == {"date_format", "size_mode", "font_size", "margin", "bg_padding",
                       "font_name", "position", "bg_color", "bg_opacity", "font_color"}

Progress(t, w) == [type |-> "progress", thread |-> t, value |-> w.i + 1]
ErrorBox(t, path, err) == [type |-> "error", thread |-> t, path |-> path, err |-> err]
Finished(t, w) == [type |-> "finished", thread |-> t, success |-> w.success,
                   skipped |-> w.skipped, failed |-> w.failed]

\* save_mode = self.save_mode.get(); success, skipped, failed = 0, 0, 0
WorkerStart(t) ==
    /\ Running
    /\ threads[t].pc = "start"
    /\ threads' = [threads EXCEPT ![t] = [@ EXCEPT !.pc = "loop", !.save_mode = save_mode]]
    /\ workerTkReads' = workerTkReads \cup {"save_mode"}
    /\ UNCHANGED <<queueVars, tree_selection, selected_iid, save_mode, is_processing, evq,
                   renderVars, batchUiVars, previewVars, closeVars>>
    /\ UNCHANGED <<fnVars, tipVars>>

\* the for statement takes the next element, then the loop-top check
WorkerLoopTop(t) ==
    /\ Running
    /\ threads[t].pc = "loop"
    /\ LET w == threads[t] IN
       threads' = [threads EXCEPT ![t] =
           IF w.i >= Len(FilesIter(files)) \/ CancelRequested(is_processing)
           THEN [w EXCEPT !.pc = "finish"]
           ELSE [w EXCEPT !.pc = "try", !.attempted = @ + 1]]
    /\ UNCHANGED <<queueVars, tree_selection, selected_iid, save_mode, is_processing, evq,
                   renderVars, batchUiVars, previewVars, closeVars, workerTkReads>>
    /\ UNCHANGED <<fnVars, tipVars>>

\* the try body up to the point where the image file is held open
WorkerItem(t) ==
    /\ Running
    /\ threads[t].pc = "try"
    /\ LET w == threads[t]
           file_info == FilesIter(files)[w.i + 1]
           d == Subscript(file_info, "date_str")
       IN threads' = [threads EXCEPT ![t] =
            IF ~d.ok THEN [w EXCEPT !.pc = "except", !.err = d.val]
            ELSE IF d.val = ""
                 THEN [w EXCEPT !.skipped = @ + 1, !.i = @ + 1, !.pc = "loop"]
                 ELSE IF Subscript(file_info, "path").val \in BrokenPaths
                      THEN [w EXCEPT !.pc = "except", !.err = "OSError"]
                      ELSE [w EXCEPT !.pc = "inflight",
                                     !.open = Subscript(file_info, "path").val]]
    /\ UNCHANGED <<queueVars, tree_selection, selected_iid, save_mode, is_processing, evq,
                   renderVars, batchUiVars, previewVars, closeVars, workerTkReads>>
    /\ UNCHANGED <<fnVars, tipVars>>

\* the rest of the iteration: render and save, or the except clause; then the
\* progress callback is queued
WorkerItemEnd(t) ==
    /\ Running
    /\ threads[t].pc \in {"inflight", "except"}
    /\ LET w == threads[t]
           file_info == FilesIter(files)[w.i + 1]
           path == Subscript(file_info, "path")
       IN IF w.pc = "inflight"
          THEN /\ threads' = [threads EXCEPT ![t] =
                     [w EXCEPT !.success = @ + 1, !.open = NoFile, !.i = @ + 1,
                               !.progressPosted = @ + 1, !.pc = "loop"]]
               /\ evq' = Append(evq, Progress(t, w))
               /\ workerTkReads' = workerTkReads \cup DrawWatermarkReads
          ELSE IF ~path.ok
               THEN /\ threads' = [threads EXCEPT ![t] =
                          [w EXCEPT !.failed = @ + 1, !.pc = "dead", !.err = path.val]]
                    /\ UNCHANGED <<evq, workerTkReads>>
               ELSE /\ threads' = [threads EXCEPT ![t] =
                          [w EXCEPT !.failed = @ + 1, !.i = @ + 1, !.errorsPosted = @ + 1,
                                    !.progressPosted = @ + 1, !.pc = "loop"]]
                    /\ evq' = evq \o <<ErrorBox(t, path.val, w.err), Progress(t, w)>>
                    /\ UNCHANGED workerTkReads
    /\ UNCHANGED <<queueVars, tree_selection, selected_iid, save_mode, is_processing,
                   renderVars, batchUiVars, previewVars, closeVars>>
    /\ UNCHANGED <<fnVars, tipVars>>

\* self.root.after(0, self.on_process_finished, success, skipped, failed)
WorkerFinish(t) ==
    /\ Running
    /\ threads[t].pc = "finish"
    /\ threads' = [threads EXCEPT ![t] = [@ EXCEPT !.pc = "done", !.finishedPosted = @ + 1]]
    /\ evq' = Append(evq, Finished(t, threads[t]))
    /\ UNCHANGED <<queueVars, tree_selection, selected_iid, save_mode, is_processing,
                   renderVars, batchUiVars, previewVars, closeVars, workerTkReads>>
    /\ UNCHANGED <<fnVars, tipVars>>

\* ------------------------------------------------------------- specification
\* the tree selections drawn here: nothing selected, or one item
Selections == {{}} \cup {{iid} : iid \in Iids}

Next ==
    \/ \E path \in Paths : add_files(path)
    \/ \E sel \in Selections : on_file_select(sel)
    \/ \E m \in SaveModes : set_save_mode(m)
    \/ OptionChange
    \/ ResizeEvent
    \/ \E id \in afterPending : PreviewTimerFire(id)
    \/ RenderEnd
    \/ StartProcessing
    \/ StopProcessing
    \/ ProcessEvent
    \/ OnClose
    \/ \E yes \in BOOLEAN : OnCloseAnswer(yes)
    \/ JoinReturn
    \/ \E t \in 1..Len(threads) : WorkerStart(t)
    \/ \E t \in 1..Len(threads) : WorkerLoopTop(t)
    \/ \E t \in 1..Len(threads) : WorkerItem(t)
    \/ \E t \in 1..Len(threads) : WorkerItemEnd(t)
    \/ \E t \in 1..Len(threads) : WorkerFinish(t)

Spec == Init /\ [][Next]_vars

\* ------------------------------------------------------------------- claims
Terminated(t) == threads[t].pc \in {"done", "dead"}
Counted(w) == w.success + w.skipped + w.failed
Entries == 1..Len(files)
EmptyDate(k) == files[k][2].date_str = ""
Broken(k) == files[k][2].path \in BrokenPaths
\* the run of the latest worker has not been cancelled: the flag is still set
Uncancelled(t) == t = Len(threads) /\ is_processing

\* C1: when an uncancelled run's worker has ended, every queued item is in
\* exactly one count: skipped for an empty date, failed for a file that
\* cannot be processed, success otherwise.
C1_Classification ==
    \A t \in 1..Len(threads) :
        (Terminated(t) /\ Uncancelled(t)) =>
            /\ threads[t].skipped = Cardinality({k \in Entries : EmptyDate(k)})
            /\ threads[t].failed = Cardinality({k \in Entries : ~EmptyDate(k) /\ Broken(k)})
            /\ threads[t].success = Cardinality({k \in Entries : ~EmptyDate(k) /\ ~Broken(k)})

\* C2: every exception counted as failed has been reported with its path and
\* error, and the exception has not ended the worker.
C2_ExceptionContinues ==
    \A t \in 1..Len(threads) :
        /\ threads[t].errorsPosted = threads[t].failed
        /\ threads[t].pc # "dead"

\* C3: when an uncancelled run's worker has ended, it has queued the progress
\* callback once for every item of the queue.
C3_ProgressPerItem ==
    \A t \in 1..Len(threads) :
        (Terminated(t) /\ Uncancelled(t)) => threads[t].progressPosted = Len(files)

\* C4: a worker that is at the loop top while cancellation is requested takes
\* no further item (it leaves the loop with its counts as they are), and the
\* counts a worker holds or reports never exceed the items it has entered.
C4_Step(t) ==
    /\ (threads[t].pc = "loop" /\ ~is_processing) =>
           \/ threads'[t] = threads[t]
           \/ threads'[t] = [threads[t] EXCEPT !.pc = "finish"]
    /\ Counted(threads'[t]) <= threads'[t].attempted
    /\ \A k \in 1..Len(evq') :
           (evq'[k].type = "finished" /\ evq'[k].thread = t) =>
               evq'[k].success + evq'[k].skipped + evq'[k].failed <= threads'[t].attempted

C5_RunEnds ==
    \A t \in 1..Len(threads) : Terminated(t) => threads[t].finishedPosted = 1

\* C6: at most one worker is alive; a worker is started only from a state
\* with no live worker and with is_processing unset, so the trigger used
\* while is_processing is set never starts one.
C6_SingleWorker ==
    [][/\ Cardinality(AliveThreads) <= 1
       /\ Cardinality(AliveThreads') <= 1
       /\ Len(threads') > Len(threads) => (AliveThreads = {} /\ ~is_processing)]_vars

\* a second run is under way after the first one was cancelled and completed
C6_Witness ==
    /\ Len(threads) = 2
    /\ threads[1].pc = "done"
    /\ Alive(2)
    /\ is_processing

C8_JoinBeforeDestroy ==
    (cpc = "destroyed" /\ AliveThreads # {}) => (join_called /\ ~is_processing)

\* C9: at most one scheduled render is pending, it is the one of the latest
\* request, and the requests since the last timer render have caused exactly
\* one render: it is still pending or it has run once.
C9_Debounce ==
    /\ Cardinality(afterPending) <= 1
    /\ afterPending \subseteq {preview_update_job_id}
    /\ preview_update_job_id # None => timerRenders + Cardinality(afterPending) = 1

\* a burst of at least two requests has been rendered once
C9_Witness ==
    /\ burst >= 2
    /\ timerRenders = 1
    /\ afterPending = {}

\* C10: no worker thread reads a Tk variable.
C10_WorkerNoTkAccess == workerTkReads = {}

\* ----------------------------------------------------------------- strings
\* A Python str is a sequence of one-character strings; a weekday name that
\* strftime emits is kept as one element.
Digits == <<"0", "1", "2", "3", "4", "5", "6", "7", "8", "9">>
IsDigit(c) == \E k \in 1..10 : Digits[k] = c
DigitVal(c) == (CHOOSE k \in 1..10 : Digits[k] = c) - 1
AllDigits(s) == \A k \in 1..Len(s) : IsDigit(s[k])

RECURSIVE NumVal(_)
NumVal(s) == IF s = <<>> THEN 0
             ELSE 10 * NumVal(SubSeq(s, 1, Len(s) - 1)) + DigitVal(s[Len(s)])

\* str.upper on the letters templates are written with
UpperIdentity(c) == c
Upper(c) ==
    CASE c = "y" -> "Y" [] c = "m" -> "M" [] c = "d" -> "D" [] c = "a" -> "A"
      [] c = "x" -> "X" [] OTHER -> c
StrUpper(s) == [k \in 1..Len(s) |-> Upper(s[k])]

\* str.replace(key, val): leftmost, non-overlapping
RECURSIVE Replace(_, _, _)
Replace(s, key, val) ==
    IF Len(s) < Len(key) THEN s
    ELSE IF SubSeq(s, 1, Len(key)) = key
         THEN val \o Replace(SubSeq(s, Len(key) + 1, Len(s)), key, val)
         ELSE <<s[1]>> \o Replace(Tail(s), key, val)

\* str.split(sep) for a one-character separator
RECURSIVE Split(_, _)
Split(s, sep) ==
    IF \A k \in 1..Len(s) : s[k] # sep THEN <<s>>
    ELSE LET at == CHOOSE k \in 1..Len(s) : s[k] = sep /\ \A j \in 1..(k - 1) : s[j] # sep
         IN <<SubSeq(s, 1, at - 1)>> \o Split(SubSeq(s, at + 1, Len(s)), sep)

\* ------------------------------------------------------------- format_date
IsLeap(y) == (y % 4 = 0 /\ y % 100 # 0) \/ y % 400 = 0
DaysIn(y, m) ==
    IF m = 2 THEN (IF IsLeap(y) THEN 29 ELSE 28)
    ELSE IF m \in {4, 6, 9, 11} THEN 30 ELSE 31

\* datetime.strptime(date_str, "%Y-%m-%d"): %Y is four digits, %m and %d one
\* or two digits (%d also a space and a digit); the date must exist
MonthText(p) ==
    /\ Len(p) \in {1, 2}
    /\ AllDigits(p)
    /\ NumVal(p) \in 1..12
DayText(p) ==
    \/ Len(p) \in {1, 2} /\ AllDigits(p) /\ NumVal(p) >= 1
    \/ Len(p) = 2 /\ p[1] = " " /\ IsDigit(p[2]) /\ p[2] # "0"
DayVal(p) == IF p[1] = " " THEN DigitVal(p[2]) ELSE NumVal(p)

strptime(date_str) ==
    LET parts == Split(date_str, "-") IN
    IF /\ Len(parts) = 3
       /\ Len(parts[1]) = 4
       /\ AllDigits(parts[1])
       /\ NumVal(parts[1]) >= 1
       /\ MonthText(parts[2])
       /\ DayText(parts[3])
       /\ DayVal(parts[3]) <= DaysIn(NumVal(parts[1]), NumVal(parts[2]))
    THEN [ok |-> TRUE, year |-> NumVal(parts[1]), month |-> NumVal(parts[2]),
          day |-> DayVal(parts[3])]
    ELSE [ok |-> FALSE, exc |-> "ValueError"]

\* date.weekday(): 0 is Monday
DayOffsets == <<0, 3, 2, 5, 0, 3, 5, 1, 4, 6, 2, 4>>
weekday(d) ==
    LET y == IF d.month < 3 THEN d.year - 1 ELSE d.year
        sunday0 == (y + (y \div 4) - (y \div 100) + (y \div 400) + DayOffsets[d.month] + d.day) % 7
    IN (sunday0 + 6) % 7
DayNames == <<"Monday", "Tuesday", "Wednesday", "Thursday", "Friday", "Saturday", "Sunday">>
DayAbbrs == <<"Mon", "Tue", "Wed", "Thu", "Fri", "Sat", "Sun">>

Unpadded(n) == IF n < 10 THEN <<Digits[n + 1]>> ELSE <<Digits[(n \div 10) + 1], Digits[(n % 10) + 1]>>
Padded2(n) == <<Digits[((n \div 10) % 10) + 1], Digits[(n % 10) + 1]>>
Padded4(n) == Padded2(n \div 100) \o Padded2(n % 100)

\* date.strftime(fmt) for the directives fmt_map produces (os.name is not 'nt');
\* any other character, a '%' before one included, is copied
RECURSIVE strftime(_, _)
strftime(d, f) ==
    IF f = <<>> THEN <<>>
    ELSE IF f[1] = "%" /\ Len(f) >= 2
    THEN LET rest2 == SubSeq(f, 3, Len(f)) IN
         CASE f[2] = "Y" -> Padded4(d.year) \o strftime(d, rest2)
           [] f[2] = "y" -> Padded2(d.year % 100) \o strftime(d, rest2)
           [] f[2] = "m" -> Padded2(d.month) \o strftime(d, rest2)
           [] f[2] = "d" -> Padded2(d.day) \o strftime(d, rest2)
           [] f[2] = "A" -> <<DayNames[weekday(d) + 1]>> \o strftime(d, rest2)
           [] f[2] = "a" -> <<DayAbbrs[weekday(d) + 1]>> \o strftime(d, rest2)
           [] f[2] = "%" -> <<"%">> \o strftime(d, rest2)
           [] f[2] = "-" /\ Len(f) >= 3 /\ f[3] = "m" ->
                  Unpadded(d.month) \o strftime(d, SubSeq(f, 4, Len(f)))
           [] f[2] = "-" /\ Len(f) >= 3 /\ f[3] = "d" ->
                  Unpadded(d.day) \o strftime(d, SubSeq(f, 4, Len(f)))
           [] OTHER -> <<"%">> \o strftime(d, Tail(f))
    ELSE <<f[1]>> \o strftime(d, Tail(f))

\* fmt_map, in the order the dict literal lists its keys
fmt_map == << <<(<<"Y", "Y", "Y", "Y">>), (<<"%", "Y">>)>>,
              <<(<<"Y", "Y">>), (<<"%", "y">>)>>,
              <<(<<"M", "M">>), (<<"%", "m">>)>>,
              <<(<<"M">>), (<<"%", "-", "m">>)>>,
              <<(<<"D", "D">>), (<<"%", "d">>)>>,
              <<(<<"D">>), (<<"%", "-", "d">>)>>,
              <<(<<"A", "A">>), (<<"%", "A">>)>>,
              <<(<<"A">>), (<<"%", "a">>)>> >>

\* sorted(fmt_map.keys(), key=len, reverse=True): stable, longest keys first
RECURSIVE ByLenDesc(_, _)
ByLenDesc(entries, n) ==
    IF n = 0 THEN <<>>
    ELSE LET idx == {k \in 1..Len(entries) : Len(entries[k][1]) = n}
             RECURSIVE Pick(_)
             Pick(k) == IF k > Len(entries) THEN <<>>
                        ELSE (IF k \in idx THEN <<entries[k]>> ELSE <<>>) \o Pick(k + 1)
         IN Pick(1) \o ByLenDesc(entries, n - 1)
DictOrder(entries) == entries
SortedKeys(entries) == ByLenDesc(entries, 4)

RECURSIVE ReplaceAll(_, _)
ReplaceAll(s, entries) ==
    IF entries = <<>> THEN s
    ELSE ReplaceAll(Replace(s, entries[1][1], entries[1][2]), Tail(entries))

format_date(date_str, fmt) ==
    LET date_obj == strptime(date_str) IN
    IF ~date_obj.ok THEN [ok |-> FALSE, exc |-> date_obj.exc]
    ELSE [ok |-> TRUE,
          val |-> strftime(date_obj, ReplaceAll(StrUpper(fmt), SortedKeys(fmt_map)))]

\* ------------------------------------------------- calls of format_date
D1999_01_31 == <<"1", "9", "9", "9", "-", "0", "1", "-", "3", "1">>
D2025_03_07 == <<"2", "0", "2", "5", "-", "0", "3", "-", "0", "7">>
D2021_11_09 == <<"2", "0", "2", "1", "-", "1", "1", "-", "0", "9">>
ValidDates == {D1999_01_31, D2025_03_07, D2021_11_09}
\* "", "bad", 2020-02-30, 2020-13-01, 20200131
UnparsableDates == {<<>>, <<"b", "a", "d">>,
                    <<"2", "0", "2", "0", "-", "0", "2", "-", "3", "0">>,
                    <<"2", "0", "2", "0", "-", "1", "3", "-", "0", "1">>,
                    <<"2", "0", "2", "0", "0", "1", "3", "1">>}

TokenLetters == {"Y", "M", "D", "A"}
TemplateChars == TokenLetters \cup {"y", "m", "d", "a", "x", ".", " ", "/"}
T_YY_M_D == <<"Y", "Y", ".", " ", "M", ".", " ", "D", ".">>
T_M_D_YYYY == <<"M", "/", "D", "/", "Y", "Y", "Y", "Y">>
T_YYYY_MM_DD == <<"Y", "Y", "Y", "Y", "-", "M", "M", "-", "D", "D">>
T_yyyy_mm_dd == <<"y", "y", "y", "y", "-", "m", "m", "-", "d", "d">>
T_YYYY == <<"Y", "Y", "Y", "Y">>
T_AA_A == <<"A", "A", " ", "A">>
Templates ==
    {<<>>} \cup {<<a>> : a \in TemplateChars}
           \cup {<<a, b>> : a \in TemplateChars, b \in TemplateChars}
           \cup {T_YY_M_D, T_M_D_YYYY, T_YYYY_MM_DD, T_yyyy_mm_dd, T_YYYY, T_AA_A}

FormatCalls == [fn : {"format_date"}, date_str : ValidDates \cup UnparsableDates,
                fmt : Templates]

CallFormatDate ==
    /\ fn_call.fn = "format_date"
    /\ ~fn_result.done
    /\ fn_result' = [done |-> TRUE, ret |-> format_date(fn_call.date_str, fn_call.fmt)]
    /\ UNCHANGED <<appVars, fn_call, tipVars>>

\* the fields of the three valid dates, written out
Fields(date_str) ==
    CASE date_str = D1999_01_31 ->
           [YYYY |-> <<"1", "9", "9", "9">>, YY |-> <<"9", "9">>, MM |-> <<"0", "1">>,
            M |-> <<"1">>, DD |-> <<"3", "1">>, D |-> <<"3", "1">>,
            AA |-> <<"Sunday">>, A |-> <<"Sun">>]
      [] date_str = D2025_03_07 ->
           [YYYY |-> <<"2", "0", "2", "5">>, YY |-> <<"2", "5">>, MM |-> <<"0", "3">>,
            M |-> <<"3">>, DD |-> <<"0", "7">>, D |-> <<"7">>,
            AA |-> <<"Friday">>, A |-> <<"Fri">>]
      [] date_str = D2021_11_09 ->
           [YYYY |-> <<"2", "0", "2", "1">>, YY |-> <<"2", "1">>, MM |-> <<"1", "1">>,
            M |-> <<"1", "1">>, DD |-> <<"0", "9">>, D |-> <<"9">>,
            AA |-> <<"Tuesday">>, A |-> <<"Tue">>]

\* a template read left to right, the longest token first at each place,
\* every other character kept as it is
StartsWith(t, key) == Len(t) >= Len(key) /\ SubSeq(t, 1, Len(key)) = key
RECURSIVE Expected(_, _)
Expected(f, t) ==
    LET rest(n) == Expected(f, SubSeq(t, n + 1, Len(t))) IN
    IF t = <<>> THEN <<>>
    ELSE IF StartsWith(t, <<"Y", "Y", "Y", "Y">>) THEN f.YYYY \o rest(4)
    ELSE IF StartsWith(t, <<"Y", "Y">>) THEN f.YY \o rest(2)
    ELSE IF StartsWith(t, <<"M", "M">>) THEN f.MM \o rest(2)
    ELSE IF StartsWith(t, <<"D", "D">>) THEN f.DD \o rest(2)
    ELSE IF StartsWith(t, <<"A", "A">>) THEN f.AA \o rest(2)
    ELSE IF StartsWith(t, <<"M">>) THEN f.M \o rest(1)
    ELSE IF StartsWith(t, <<"D">>) THEN f.D \o rest(1)
    ELSE IF StartsWith(t, <<"A">>) THEN f.A \o rest(1)
    ELSE <<t[1]>> \o rest(1)

FormatDone ==
    /\ fn_call.fn = "format_date"
    /\ fn_result.done
    /\ fn_call.date_str \in ValidDates
UpperCaseTemplate(t) == \A k \in 1..Len(t) : t[k] \in TokenLetters \cup {".", " ", "/", "-"}

\* C12: for a valid date and a template of upper-case tokens and punctuation,
\* format_date returns what the longest-first reading of the template gives;
\* format("1999-01-31", "YY. M. D.") is "99. 1. 31" and
\* format("2025-03-07", "M/D/YYYY") is "3/7/2025".
C12_LongestFirst ==
    (FormatDone /\ UpperCaseTemplate(fn_call.fmt)) =>
        /\ fn_result.ret.ok
        /\ fn_result.ret.val = Expected(Fields(fn_call.date_str), fn_call.fmt)
        /\ (fn_call.date_str = D1999_01_31 /\ fn_call.fmt = T_YY_M_D) =>
               fn_result.ret.val = <<"9", "9", ".", " ", "1", ".", " ", "3", "1">>
        /\ (fn_call.date_str = D2025_03_07 /\ fn_call.fmt = T_M_D_YYYY) =>
               fn_result.ret.val = <<"3", "/", "7", "/", "2", "0", "2", "5">>

\* C13: a template that is one token renders that token's field of the date.
C13_TokenFields ==
    FormatDone =>
        LET f == Fields(fn_call.date_str)
            t == fn_call.fmt
            v == fn_result.ret.val
        IN /\ t = <<"Y", "Y", "Y", "Y">> => v = f.YYYY
           /\ t = <<"Y", "Y">> => v = f.YY
           /\ t = <<"M", "M">> => v = f.MM
           /\ t = <<"M">> => v = f.M
           /\ t = <<"D", "D">> => v = f.DD
           /\ t = <<"D">> => v = f.D
           /\ t = <<"A", "A">> => v = f.AA
           /\ t = <<"A">> => v = f.A

\* C14: a template gives what its upper-case spelling gives, and a template
\* with no token letter in it, in either case, is returned as it is.
NoTokenLetter(t) == \A k \in 1..Len(t) : t[k] \notin TokenLetters \cup {"y", "m", "d", "a"}
C14_CaseAndLiterals ==
    FormatDone =>
        /\ fn_result.ret = format_date(fn_call.date_str, StrUpper(fn_call.fmt))
        /\ NoTokenLetter(fn_call.fmt) => fn_result.ret.val = fn_call.fmt

\* ------------------------------------------------ get_position, _draw_watermark
\* Sizes set in the options are multiples of 0.1 (the spin boxes' increment) and
\* percent mode divides by 100: lengths are kept in thousandths of a pixel.
Milli == 1000
\* the labels of the position and size-mode boxes, in ASCII:
\* top-left, top-right, bottom-left, bottom-right, center; px, percent
Positions == {"top-left", "top-right", "bottom-left", "bottom-right", "center"}

get_position_noFallback(size, margin, position) ==
    LET W == size.width
        H == size.height
    IN CASE position = "top-left" -> <<<<margin, margin>>, "lt">>
         [] position = "top-right" -> <<<<W * Milli - margin, margin>>, "rt">>
         [] position = "bottom-left" -> <<<<margin, H * Milli - margin>>, "lb">>
         [] position = "bottom-right" -> <<<<W * Milli - margin, H * Milli - margin>>, "rb">>
         [] position = "center" -> <<<<(W \div 2) * Milli, (H \div 2) * Milli>>, "mm">>
         [] OTHER -> <<<<margin, margin>>, "lt">>
get_position(size, margin, position) ==
    LET W == size.width
        H == size.height
    IN CASE position = "top-left" -> <<<<margin, margin>>, "lt">>
         [] position = "top-right" -> <<<<W * Milli - margin, margin>>, "rt">>
         [] position = "bottom-left" -> <<<<margin, H * Milli - margin>>, "lb">>
         [] position = "bottom-right" -> <<<<W * Milli - margin, H * Milli - margin>>, "rb">>
         [] position = "center" -> <<<<(W \div 2) * Milli, (H \div 2) * Milli>>, "mm">>
         [] OTHER -> <<<<W * Milli - margin, H * Milli - margin>>, "rb">>

CaughtTypeErrors == {"TypeError", "AttributeError"}
Caught == {"ValueError", "TypeError", "AttributeError"}

base_width(img) == img.width
base_size(img) == Max({img.width, img.height})

\* value is the option in tenths; the result is in thousandths of a pixel
PixelSize(size_mode, base, value) ==
    IF size_mode = "px" THEN value * (Milli \div 10) ELSE base * value

NoSizes == [font_px |-> 0, margin_px |-> 0, padding_px |-> 0]
Returned(composited, ops, sizes) ==
    [exc |-> "", mode |-> "RGBA", composited |-> composited, ops |-> ops, sizes |-> sizes]
Raised(exc) ==
    [exc |-> exc, mode |-> "", composited |-> FALSE, ops |-> <<>>, sizes |-> NoSizes]

_draw_watermark(img, date_str, cfg) ==
    LET date_text == format_date(date_str, cfg.date_format) IN
    IF ~date_text.ok
    THEN IF date_text.exc \in Caught THEN Returned(FALSE, <<>>, NoSizes)
         ELSE Raised(date_text.exc)
    ELSE IF cfg.size_mode \notin {"px", "percent"} THEN Raised("UnboundLocalError")
    ELSE
      LET base == base_size(img)
          sizes == [font_px |-> PixelSize(cfg.size_mode, base, cfg.font_size),
                    margin_px |-> PixelSize(cfg.size_mode, base, cfg.margin),
                    padding_px |-> PixelSize(cfg.size_mode, base, cfg.bg_padding)]
          placed == get_position(img, sizes.margin_px, cfg.position)
          rectangle == [op |-> "rectangle", pos |-> placed[1], anchor |-> placed[2],
                        text |-> date_text.val, size |-> sizes.padding_px,
                        alpha |-> (255 * cfg.bg_opacity) \div 100]
          text == [op |-> "text", pos |-> placed[1], anchor |-> placed[2],
                   text |-> date_text.val, size |-> sizes.font_px, alpha |-> 255]
      IN Returned(TRUE, (IF cfg.bg_color # "" THEN <<rectangle>> ELSE <<>>) \o <<text>>, sizes)

Images == {[width |-> 4, height |-> 3], [width |-> 3, height |-> 4], [width |-> 9, height |-> 5]}
StyleConfigs ==
    [date_format : {T_YYYY_MM_DD, <<>>, <<"D">>},
     size_mode : {"px", "percent", "other"},
     font_size : {30, 125},
     margin : {0, 30},
     bg_padding : {0, 10},
     position : {"bottom-right", "center", "unknown"},
     bg_color : {"", "#FFFFFF"},
     bg_opacity : {50}]
DrawCalls == [fn : {"_draw_watermark"}, img : Images,
              date_str : {D2025_03_07} \cup UnparsableDates, cfg : StyleConfigs]

Call_draw_watermark ==
    /\ fn_call.fn = "_draw_watermark"
    /\ ~fn_result.done
    /\ fn_result' = [done |-> TRUE,
                     ret |-> _draw_watermark(fn_call.img, fn_call.date_str, fn_call.cfg)]
    /\ UNCHANGED <<appVars, fn_call, tipVars>>

PlaceCalls == [fn : {"get_position"},
               size : Images \cup {[width |-> 1000, height |-> 800], [width |-> 7, height |-> 5]},
               margin : {0, 500, 20 * Milli},
               position : Positions \cup {"unknown", ""}]

Call_get_position ==
    /\ fn_call.fn = "get_position"
    /\ ~fn_result.done
    /\ fn_result' = [done |-> TRUE,
                     ret |-> get_position(fn_call.size, fn_call.margin, fn_call.position)]
    /\ UNCHANGED <<appVars, fn_call, tipVars>>

DrawDone == fn_call.fn = "_draw_watermark" /\ fn_result.done
\* what a drawing call leaves on the layer: a rectangle of non-zero opacity, a non-empty text
Marks(ops) == {k \in 1..Len(ops) : \/ ops[k].op = "rectangle" /\ ops[k].alpha > 0
                                   \/ ops[k].op = "text" /\ ops[k].text # <<>>}

\* C11: _draw_watermark called with an empty or unparsable date string raises
\* nothing and returns the RGBA conversion of the base image, not composited
\* with a layer and with nothing drawn, whatever the style options are.
C11_UnparsableDateNoOp ==
    (DrawDone /\ fn_call.date_str \in UnparsableDates) =>
        /\ fn_result.ret.exc = ""
        /\ fn_result.ret.mode = "RGBA"
        /\ ~fn_result.ret.composited
        /\ fn_result.ret.ops = <<>>
C11_Witness ==
    /\ DrawDone
    /\ fn_call.date_str = <<>>
    /\ fn_call.cfg.size_mode = "other"
    /\ fn_call.cfg.bg_color # ""
    /\ fn_result.ret.exc = ""

\* C16: get_position returns the table's corner and anchor for the five known
\* positions (the center by integer halving) and the bottom-right result for
\* any other value; get_position((1000, 800), 20, "unknown") = ((980, 780), "rb").
C16_Place ==
    (fn_call.fn = "get_position" /\ fn_result.done) =>
        LET W == fn_call.size.width * Milli
            H == fn_call.size.height * Milli
            m == fn_call.margin
            p == fn_call.position
            xy == fn_result.ret[1]
            anchor == fn_result.ret[2]
        IN /\ p = "top-left" => xy = <<m, m>> /\ anchor = "lt"
           /\ p = "top-right" => xy = <<W - m, m>> /\ anchor = "rt"
           /\ p = "bottom-left" => xy = <<m, H - m>> /\ anchor = "lb"
           /\ p = "bottom-right" => xy = <<W - m, H - m>> /\ anchor = "rb"
           /\ p = "center" => /\ anchor = "mm"
                              /\ 2 * xy[1] <= W /\ W < 2 * xy[1] + 2 * Milli
                              /\ 2 * xy[2] <= H /\ H < 2 * xy[2] + 2 * Milli
           /\ p \notin Positions => xy = <<W - m, H - m>> /\ anchor = "rb"
           /\ (fn_call.size = [width |-> 1000, height |-> 800] /\ m = 20 * Milli
                  /\ p = "unknown") => xy = <<980 * Milli, 780 * Milli>> /\ anchor = "rb"
C16_Witness ==
    /\ fn_call.fn = "get_position" /\ fn_result.done
    /\ fn_call.size = [width |-> 1000, height |-> 800]
    /\ fn_call.margin = 20 * Milli
    /\ fn_call.position = "unknown"
    /\ fn_result.ret = <<<<980 * Milli, 780 * Milli>>, "rb">>

\* C17: in percent mode the font size, margin and padding of a rendering are
\* max(width, height) of its image times the option / 100, so the font sizes of
\* two images under one style are in the ratio of their larger sides; in pixel
\* mode the three are the options themselves.
C17_Sizing ==
    (DrawDone /\ fn_result.ret.composited) =>
        LET cfg == fn_call.cfg
            img == fn_call.img
            big == IF img.width >= img.height THEN img.width ELSE img.height
            got == fn_result.ret.sizes
        IN /\ cfg.size_mode = "percent" =>
                \* (option / 10) / 100 of the larger side, in thousandths
                /\ got.font_px = big * cfg.font_size
                /\ got.margin_px = big * cfg.margin
                /\ got.padding_px = big * cfg.bg_padding
                /\ \A other \in Images :
                      LET big2 == IF other.width >= other.height THEN other.width
                                  ELSE other.height
                      IN _draw_watermark(other, fn_call.date_str, cfg).sizes.font_px * big
                             = got.font_px * big2
           /\ cfg.size_mode = "px" =>
                /\ got.font_px * 10 = cfg.font_size * Milli
                /\ got.margin_px * 10 = cfg.margin * Milli
                /\ got.padding_px * 10 = cfg.bg_padding * Milli
C17_Witness ==
    /\ DrawDone /\ fn_result.ret.composited
    /\ fn_call.cfg.size_mode = "percent"
    /\ fn_call.img.height > fn_call.img.width
    /\ fn_result.ret.sizes.font_px = 4 * 125

\* C19: when the formatted date text is empty, _draw_watermark returns the
\* RGBA conversion of the base image, not composited, with no rectangle and
\* no text drawn.
C19_EmptyTextNoOp ==
    (/\ DrawDone
     /\ format_date(fn_call.date_str, fn_call.cfg.date_format) = [ok |-> TRUE, val |-> <<>>]
     /\ fn_call.cfg.size_mode # "other") =>
        /\ fn_result.ret.exc = ""
        /\ ~fn_result.ret.composited
        /\ Marks(fn_result.ret.ops) = {}

\* ------------------------------------------- get_exif_date on a file's contents
\* A tag is absent, a string, or a value of another type (a non-zero number).
Absent == [kind |-> "absent", s |-> <<>>]
NonString == [kind |-> "int", s |-> <<>>]
Truthy(v) == v.kind = "int" \/ (v.kind = "str" /\ v.s # <<>>)

\* (tag name, IFD searched: 1 the Exif IFD, 0 the main IFD), in search order
tag_priority_main_first ==
    <<<<"DateTime", 0>>, <<"DateTimeOriginal", 1>>, <<"DateTimeDigitized", 1>>>>
tag_priority ==
    <<<<"DateTimeOriginal", 1>>, <<"DateTimeDigitized", 1>>, <<"DateTime", 0>>>>

NoTags == [DateTimeOriginal |-> Absent, DateTimeDigitized |-> Absent, DateTime |-> Absent]
IfdGet(ifd, tag_name) ==
    CASE tag_name = "DateTimeOriginal" -> ifd.DateTimeOriginal
      [] tag_name = "DateTimeDigitized" -> ifd.DateTimeDigitized
      [] tag_name = "DateTime" -> ifd.DateTime

\* file: readable (Image.open and getexif succeed), main and sub (the tags of
\* the main IFD and of the Exif IFD), ExifOffset (the main IFD points to the
\* Exif IFD), other (the main IFD holds some other tag)
read_exif_date(file) ==
    LET exif_data == file.main
        exif_len == Cardinality({n \in {"DateTimeOriginal", "DateTimeDigitized", "DateTime"} :
                                    IfdGet(exif_data, n) # Absent})
                    + (IF file.ExifOffset THEN 1 ELSE 0) + (IF file.other THEN 1 ELSE 0)
        exif_ifd == IF file.ExifOffset THEN file.sub ELSE NoTags
        RECURSIVE Search(_)
        Search(k) ==
            IF k > Len(tag_priority) THEN <<>>
            ELSE LET ifd_to_search == IF tag_priority[k][2] = 0 THEN exif_data ELSE exif_ifd
                     date_str == IfdGet(ifd_to_search, tag_priority[k][1])
                 IN IF Truthy(date_str)
                    THEN IF date_str.kind = "str"
                         THEN Replace(Split(date_str.s, " ")[1], <<":">>, <<"-">>)
                         ELSE <<>>     \* .split raises, caught at line 57
                    ELSE Search(k + 1)
    IN IF ~file.readable THEN <<>>     \* caught at line 57
       ELSE IF exif_len = 0 THEN <<>>
       ELSE Search(1)

TagOriginal == StrVal(<<"2", "0", "0", "1", ":", "0", "1", ":", "0", "1", " ", "1", "0", ":", "2", "0">>)
TagDigitized == StrVal(<<"2", "0", "0", "2", ":", "0", "2", ":", "0", "2">>)
TagDateTime == StrVal(<<"2", "0", "0", "3", ":", "0", "3", ":", "0", "3", " ", " ", "x">>)
TagLeadingSpace == StrVal(<<" ", "2", "0", "0", "4">>)
TagValues == {Absent, StrVal(<<>>), NonString, TagLeadingSpace}
ImageFiles ==
    [readable : BOOLEAN, ExifOffset : BOOLEAN, other : BOOLEAN,
     main : [DateTimeOriginal : {Absent}, DateTimeDigitized : {Absent},
             DateTime : TagValues \cup {TagDateTime}],
     sub : [DateTimeOriginal : TagValues \cup {TagOriginal},
            DateTimeDigitized : TagValues \cup {TagDigitized},
            DateTime : {Absent}]]
ExifCalls == [fn : {"get_exif_date"}, file : ImageFiles]

Call_get_exif_date ==
    /\ fn_call.fn = "get_exif_date"
    /\ ~fn_result.done
    /\ fn_result' = [done |-> TRUE, ret |-> read_exif_date(fn_call.file)]
    /\ UNCHANGED <<appVars, fn_call, tipVars>>

ExifDone == fn_call.fn = "get_exif_date" /\ fn_result.done
\* the three tags as a reader of the file finds them, in the claimed order
TagsInOrder(file) ==
    <<IF file.ExifOffset THEN file.sub.DateTimeOriginal ELSE Absent,
      IF file.ExifOffset THEN file.sub.DateTimeDigitized ELSE Absent,
      file.main.DateTime>>
\* d is the part of s before its first space, with every ":" written "-"
IsDatePart(d, s) ==
    /\ Len(d) <= Len(s)
    /\ \A k \in 1..Len(d) : s[k] # " " /\ d[k] = (IF s[k] = ":" THEN "-" ELSE s[k])
    /\ Len(d) < Len(s) => s[Len(d) + 1] = " "

\* C15: get_exif_date returns the date part (up to the first space, ":"
\* written "-") of the first non-empty tag among DateTimeOriginal and
\* DateTimeDigitized of the Exif IFD and DateTime of the main IFD; it returns
\* the empty string when no tag is set, when the file cannot be read and when
\* the tag found is not a string.
C15_ExifDate ==
    ExifDone =>
        LET file == fn_call.file
            tags == TagsInOrder(file)
            set == {k \in 1..3 : Truthy(tags[k])}
            ret == fn_result.ret
        IN /\ (~file.readable \/ set = {}) => ret = <<>>
           /\ (file.readable /\ set # {}) =>
                 LET first == tags[CHOOSE k \in set : \A j \in set : k <= j]
                 IN IF first.kind = "str" THEN IsDatePart(ret, first.s) ELSE ret = <<>>
C15_Witness ==
    /\ ExifDone
    /\ fn_call.file.readable /\ fn_call.file.ExifOffset
    /\ fn_call.file.sub.DateTimeOriginal = StrVal(<<>>)
    /\ fn_call.file.sub.DateTimeDigitized = TagDigitized
    /\ fn_call.file.main.DateTime = TagDateTime
    /\ fn_result.ret = <<"2", "0", "0", "2", "-", "0", "2", "-", "0", "2">>

\* ---------------------------------------------- specification of the functions
FnCalls == FormatCalls \cup DrawCalls \cup PlaceCalls \cup ExifCalls

FnInit ==
    /\ AppInit
    /\ fn_call \in FnCalls
    /\ fn_result = NotRun
    /\ tip = NewTooltip(3000)

FnNext ==
    \/ CallFormatDate
    \/ Call_draw_watermark
    \/ Call_get_position
    \/ Call_get_exif_date

SpecFn == FnInit /\ [][FnNext]_vars

\* ------------------------------------------------------ editing the queue
\* self.selected_iid after the loop over the removed ids
SelectedKept(removed) == selected_iid
SelectedAfterRemove(removed) == IF selected_iid \in removed THEN None ELSE selected_iid

remove_file ==
    /\ UserInput
    /\ ~ui_disabled
    /\ tree_selection # {}
    /\ files' = SelectSeq(files, LAMBDA e : e[1] \notin tree_selection)
    /\ tree_selection' = {}
    /\ selected_iid' = SelectedAfterRemove(tree_selection)
    /\ preview_state' = IF selected_iid \in tree_selection THEN "none" ELSE preview_state
    /\ UNCHANGED <<tree_next, cpc, cOpen, save_mode, is_processing, threads, evq,
                   batchUiVars, previewVars, closeVars, workerTkReads>>
    /\ UNCHANGED <<fnVars, tipVars>>

\* str.strip of the texts typed into date_entry
EntryTexts == {"", " 2021-05-05 "}
strip(text) ==
    CASE text = " 2021-05-05 " -> "2021-05-05"
      [] OTHER -> text

SetItem(fs, iid, key, val) ==
    [k \in 1..Len(fs) |-> IF fs[k][1] = iid
                          THEN <<iid, [fs[k][2] EXCEPT ![key] = val]>> ELSE fs[k]]

commit_date(text) ==
    /\ UserInput
    /\ ~ui_disabled
    /\ selected_iid # None
    /\ files' = SetItem(files, selected_iid, "date_str", strip(text))
    /\ render_preview(selected_iid)
    /\ UNCHANGED <<tree_next, tree_selection, selected_iid, save_mode, is_processing,
                   threads, evq, batchUiVars, previewVars, closeVars, workerTkReads>>
    /\ UNCHANGED <<fnVars, tipVars>>

RotateBack(rotation) == (rotation + 270) % 360
Rotate(rotation) == (rotation + 90) % 360

rotate_image ==
    /\ UserInput
    /\ ~ui_disabled
    /\ selected_iid # None
    /\ files' = SetItem(files, selected_iid, "rotation", Rotate(FileInfo(selected_iid).rotation))
    /\ render_preview(selected_iid)
    /\ UNCHANGED <<tree_next, tree_selection, selected_iid, save_mode, is_processing,
                   threads, evq, batchUiVars, previewVars, closeVars, workerTkReads>>
    /\ UNCHANGED <<fnVars, tipVars>>

QueuePaths == {"a.jpg", "c.jpg"}

QueueNext ==
    \/ \E path \in QueuePaths : add_files(path)
    \/ \E sel \in SUBSET Iids : on_file_select(sel)
    \/ remove_file
    \/ \E text \in EntryTexts : commit_date(text)
    \/ rotate_image
    \/ RenderEnd

SpecQueue == Init /\ [][QueueNext]_vars

\* C18: every queued item's rotation is one of 0, 90, 180, 270 (four
\* rotations from any of them give the value back); an added item starts at 0;
\* a step that changes a rotation adds 90 modulo 360 to the rotation of the
\* selected item and leaves every other item's rotation and every date as it was.
Rotations == {0, 90, 180, 270}
RotationOf(fs, iid) == fs[CHOOSE k \in 1..Len(fs) : fs[k][1] = iid][2].rotation
DateOf(fs, iid) == fs[CHOOSE k \in 1..Len(fs) : fs[k][1] = iid][2].date_str
IidsOf(fs) == {fs[k][1] : k \in 1..Len(fs)}
C18_RotationStep ==
    LET kept == IidsOf(files) \cap IidsOf(files')
        turned == {iid \in kept : RotationOf(files', iid) # RotationOf(files, iid)}
    IN /\ \A iid \in IidsOf(files') \ IidsOf(files) : RotationOf(files', iid) = 0
       /\ turned # {} =>
            /\ turned = {selected_iid}
            /\ RotationOf(files', selected_iid) = (RotationOf(files, selected_iid) + 90) % 360
            /\ \A iid \in kept : DateOf(files', iid) = DateOf(files, iid)
            /\ IidsOf(files') = IidsOf(files)
C18_Rotation ==
    /\ [](\A iid \in Iids : /\ FileInfo(iid).rotation \in Rotations
                            /\ Rotate(Rotate(Rotate(Rotate(FileInfo(iid).rotation))))
                                 = FileInfo(iid).rotation)
    /\ [][C18_RotationStep]_vars
C18_Witness ==
    /\ Len(files) = 2
    /\ selected_iid \in Iids
    /\ FileInfo(selected_iid).rotation = 270
    /\ \E iid \in Iids : iid # selected_iid /\ FileInfo(iid).rotation = 90
                                            /\ FileInfo(iid).date_str = "2021-05-05"

\* C20: the batch worker never holds the file of an empty-date item open and
\* never takes such an item into the try block's work or its except clause:
\* every empty-date item it has passed is counted as skipped, and the item it
\* is rendering, saving or failing on has a date.
C20_EmptyDateSkipped ==
    \A t \in 1..Len(threads) :
        LET w == threads[t] IN
        /\ \A k \in Entries : EmptyDate(k) => w.open # files[k][2].path
        /\ w.skipped = Cardinality({k \in 1..w.i : EmptyDate(k)})
        /\ w.pc \in {"inflight", "except", "dead"} => ~EmptyDate(w.i + 1)

\* C21: the font size _draw_watermark resolves and hands to the font loader is
\* at least one pixel, in pixel mode and in percent mode.
C21_FontSizeAtLeastOne ==
    (DrawDone /\ fn_result.ret.composited) => fn_result.ret.sizes.font_px >= Milli

\* C25: after any sequence of add, select, deselect, remove, edit-date and
\* rotate, selected_iid is None or the id of an item still in the queue, so
\* render_preview, commit_date and rotate_image find files[selected_iid].
C25_SelectedInQueue == selected_iid = None \/ selected_iid \in Iids
\* two items were selected together and removed, the selected one among them
C25_Witness ==
    /\ selected_iid = None
    /\ tree_next = 3
    /\ files = <<>>
    /\ preview_state = "none"

\* ------------------------------------------------------------------ Tooltip
\* widget.after(ms, cb): a new timer id, pending until it fires or is cancelled
After(t, cb) == [t EXCEPT !.seq = @ + 1, !.pending = @ \cup {[id |-> t.seq + 1, cb |-> cb]}]
AfterCancelTip(t, id) == [t EXCEPT !.pending = {x \in @ : x.id # id}]

cancel_autohide(t) ==
    IF t.autohide_id # None
    THEN [AfterCancelTip(t, t.autohide_id) EXCEPT !.autohide_id = None]
    ELSE t

reschedule_autohide(t) ==
    LET c == cancel_autohide(t) IN
    IF c.autohide # None /\ c.tip_window
    THEN [After(c, "hide_tip") EXCEPT !.autohide_id = c.seq + 1]
    ELSE c

AlreadyShown(t) == t.tip_window
AlreadyShownOrScheduled(t) == t.tip_window \/ t.schedule_id # None

schedule_tip(t) ==
    IF AlreadyShownOrScheduled(t) THEN t
    ELSE [After(t, "show_tip") EXCEPT !.schedule_id = t.seq + 1]

show_tip(t) ==
    IF t.tip_window THEN t
    ELSE LET w == [t EXCEPT !.schedule_id = None, !.tip_window = TRUE, !.windows = @ + 1]
         IN IF ~w.is_mouse_pressed THEN reschedule_autohide(w) ELSE w

hide_tip(t) ==
    LET a == IF t.schedule_id # None
             THEN [AfterCancelTip(t, t.schedule_id) EXCEPT !.schedule_id = None] ELSE t
        b == IF a.autohide_id # None
             THEN [AfterCancelTip(a, a.autohide_id) EXCEPT !.autohide_id = None] ELSE a
    IN IF b.tip_window THEN [b EXCEPT !.tip_window = FALSE, !.windows = @ - 1] ELSE b

\* position_tip moves the window, if there is one
position_tip(t) == t

on_mouse_press(t) == cancel_autohide([t EXCEPT !.is_mouse_pressed = TRUE])
on_mouse_release(t) == reschedule_autohide([t EXCEPT !.is_mouse_pressed = FALSE])

\* an event bound in __init__ is delivered to its handler
TipHandlers ==
    [enter |-> schedule_tip(tip), leave |-> hide_tip(tip), motion |-> position_tip(tip),
     press |-> on_mouse_press(tip), release |-> on_mouse_release(tip)]
TipEvent(ev) ==
    /\ TipHandlers[ev].seq <= MaxTipTimers
    /\ tip' = [TipHandlers[ev] EXCEPT !.last = ev]
    /\ UNCHANGED <<appVars, fnVars>>

\* a pending timer fires and runs its callback
TipTimerFire(x) ==
    /\ x \in tip.pending
    /\ LET fired == [tip EXCEPT !.pending = @ \ {x}]
           ran == IF x.cb = "show_tip" THEN show_tip(fired) ELSE hide_tip(fired)
       IN /\ ran.seq <= MaxTipTimers
          /\ tip' = [ran EXCEPT !.last = x.cb]
    /\ UNCHANGED <<appVars, fnVars>>

TipEvents == {"enter", "leave", "motion", "press", "release"}
\* the two tooltips of the application: date_entry (no auto-hide), bg_opacity_scale
TipInit ==
    /\ AppInit
    /\ fn_call = NoCall
    /\ fn_result = NotRun
    /\ tip \in {NewTooltip(None), NewTooltip(3000)}

TipNext ==
    \/ \E ev \in TipEvents : TipEvent(ev)
    \/ \E x \in tip.pending : TipTimerFire(x)

SpecTip == TipInit /\ [][TipNext]_vars

\* C26: at most one tooltip window exists; a show timer is pending only while
\* no window is shown; an auto-hide timer is pending only while a window is
\* shown and the mouse button is not held; right after the pointer has left
\* the widget there is no window and no pending timer.
ShowPending == \E x \in tip.pending : x.cb = "show_tip"
AutohidePending == \E x \in tip.pending : x.cb = "hide_tip"
C26_Tooltip ==
    /\ tip.windows <= 1
    /\ ShowPending => tip.windows = 0
    /\ AutohidePending => (tip.windows = 1 /\ ~tip.is_mouse_pressed)
    /\ tip.last = "leave" => (tip.windows = 0 /\ ~ShowPending /\ ~AutohidePending)
\* the window of an auto-hiding tooltip is up with the button held: the
\* auto-hide timer issued when it appeared has been cancelled by the press
C26_Witness ==
    /\ tip.autohide # None
    /\ tip.windows = 1
    /\ tip.is_mouse_pressed
    /\ tip.last = "press"
    /\ tip.seq >= 2
    /\ tip.pending = {}

====
